---- MODULE Spec2Model ----
(***************************************************************************)
(* Authentication and session management of the portfolio site's admin     *)
(* panel: the verification service (totp-verify), the authorized mutation  *)
(* service (admin-operations) and the image upload service (upload-image), *)
(* over the tables they share in the data store.                           *)
(*                                                                         *)
(* Time is Date.now() in milliseconds, counted from an arbitrary origin.   *)
(* Strings that the code inspects character by character (secrets) are     *)
(* sequences of one-character strings; one-time codes are sequences of six *)
(* decimal digits; session tokens are numbered in the order of issue.      *)
(***************************************************************************)
EXTENDS Integers, Sequences, FiniteSets, Bags, TLC

VARIABLES
    now,             \* Date.now(), ms
    admin_secrets,   \* table admin_secrets:   key -> value
    site_settings,   \* table site_settings:   key -> value
    admin_sessions,  \* table admin_sessions:  session_token -> expires_at
    auth_attempts,   \* table auth_attempts:   bag of rows (the id column left out)
    issued,          \* number of session tokens generated so far
    projects,        \* table projects:        id -> row
    project_images,  \* table project_images:  id -> row
    categories,      \* table categories:      id -> row
    social_links,    \* table social_links:    platform -> username
    storage,         \* bucket site-images:    path -> content type
    req,             \* the request handled last
    resp,            \* the response to it
    faults,          \* the statements on the data store that returned an error during it
    inflight         \* calls past their session check whose update of expires_at is under way

vars == <<now, admin_secrets, site_settings, admin_sessions, auth_attempts, issued,
          projects, project_images, categories, social_links, storage, req, resp,
          faults, inflight>>

\* the tables of the verification service
authTables == <<admin_secrets, admin_sessions, auth_attempts, issued>>
\* the tables only the mutation service and the upload service write
contentTables == <<projects, project_images, categories, social_links, storage>>

(***************************************************************************)
(* Program constants                                                       *)
(***************************************************************************)
SESSION_DURATION_MS == 30 * 60 * 1000
RATE_WINDOW_MS == 5 * 60 * 1000
RATE_LIMIT == 5
TIME_STEP == 30
MAX_FILE_SIZE == 5 * 1024 * 1024

(***************************************************************************)
(* Bounds of the model                                                     *)
(***************************************************************************)
\* session tokens generated in one behaviour
MaxSessions == 2
\* rows of auth_attempts in one behaviour of Spec
MaxAttempts == 1
\* rows of auth_attempts in one behaviour of SpecRate
MaxAttemptsRate == 6
\* verify calls of the second identity in one behaviour of SpecRate
MaxOther == 1
\* calls that pass the session check in one behaviour of SpecOverlap
MaxCalls == 2
\* session lifetimes that pass in one behaviour
MaxTicks == 1
\* characters of a secret submitted in SpecDecode
MaxLen == 4

\* Date.now() of the initial state: any instant late enough for now - 5 min >= 0
StartTime == 2 * SESSION_DURATION_MS

(***************************************************************************)
(* Values                                                                  *)
(***************************************************************************)
\* Strings are sequences of one-character strings, so "" is <<>>; null and
\* undefined are two sequences that no string equals.
EmptyString == <<>>
NULL == <<"null">>
Undefined == <<"undefined">>
\* JS truthiness of a string-or-absent value
Truthy(v) == v \notin {EmptyString, NULL, Undefined}
\* typeof v === "string"
isString(v) == v \notin {NULL, Undefined}
\* v || null
orNull(v) == IF Truthy(v) THEN v ELSE NULL

\* a request without sessionToken: !sessionToken holds
NoToken == 0
\* a request without an id: !id holds
NoId == 0
\* a request without code
NoCode == Undefined

(***************************************************************************)
(* TOTP engine                                                             *)
(***************************************************************************)
alphabet == <<"A","B","C","D","E","F","G","H","I","J","K","L","M","N","O","P",
              "Q","R","S","T","U","V","W","X","Y","Z","2","3","4","5","6","7">>
lowercase == <<"a","b","c","d","e","f","g","h","i","j","k","l","m","n","o","p",
               "q","r","s","t","u","v","w","x","y","z">>

\* String.prototype.toUpperCase on one character
toUpperCase(c) ==
    IF \E i \in 1..26 : lowercase[i] = c
    THEN alphabet[CHOOSE i \in 1..26 : lowercase[i] = c]
    ELSE c

\* alphabet.indexOf(char): 0-based, -1 when absent
indexOf(c) ==
    IF \E i \in 1..32 : alphabet[i] = c
    THEN (CHOOSE i \in 1..32 : alphabet[i] = c) - 1
    ELSE -1

\* .replace(/=+$/, ""): drop the trailing run of "="
RECURSIVE stripPadding(_)
stripPadding(s) ==
    IF Len(s) > 0 /\ s[Len(s)] = "="
    THEN stripPadding(SubSeq(s, 1, Len(s) - 1))
    ELSE s

\* val.toString(2).padStart(5, "0")
bits5(val) == << (val \div 16) % 2, (val \div 8) % 2, (val \div 4) % 2, (val \div 2) % 2, val % 2 >>

\* the bit string built by the loop of base32Decode
RECURSIVE decodeBits(_)
decodeBits(s) ==
    IF s = <<>> THEN <<>>
    ELSE LET val == indexOf(toUpperCase(Head(s))) IN
         IF val = -1 THEN decodeBits(Tail(s))
         ELSE bits5(val) \o decodeBits(Tail(s))

\* parseInt(bits, 2) of 8 bits
parseInt2(b) == b[1]*128 + b[2]*64 + b[3]*32 + b[4]*16 + b[5]*8 + b[6]*4 + b[7]*2 + b[8]

\* a decoder that pads the leftover bits into one more byte
base32DecodeCeil(encoded) ==
    LET bits == decodeBits(stripPadding(encoded)) \o <<0, 0, 0, 0, 0, 0, 0>>
        n == Len(bits) \div 8
    IN [i \in 1..n |-> parseInt2(SubSeq(bits, (i - 1) * 8 + 1, i * 8))]

base32Decode(encoded) ==
    LET bits == decodeBits(stripPadding(encoded))
        n == Len(bits) \div 8
    IN [i \in 1..n |-> parseInt2(SubSeq(bits, (i - 1) * 8 + 1, i * 8))]

\* t after n rounds of t = Math.floor(t / 256)
RECURSIVE shifted(_, _)
shifted(t, n) == IF n = 0 THEN t ELSE shifted(t \div 256, n - 1)

\* the 8-byte big-endian counter buffer: timeBuffer[i] = t & 0xff, i = 7..0
timeBuffer(time) == [i \in 1..8 |-> shifted(time, 8 - i) % 256]

RECURSIVE weightedSum(_, _)
weightedSum(s, k) ==
    IF s = <<>> THEN 0 ELSE (Head(s) + 1) * k + weightedSum(Tail(s), k + 2)

\* crypto.subtle.sign("HMAC", SHA-1): 20 bytes, a deterministic function of key
\* and data. SHA-1 itself is the platform's; a keyed mixing function stands for it.
hmacSha1(key, data) ==
    LET k == weightedSum(key, 3) % 1009
        d == weightedSum(data, 5) % 1013
    IN [i \in 1..20 |-> (k * (2 * i + 1) + d * (i + 7) + k * d + 11 * i) % 256]

\* dynamic truncation and the 6 digits of (code % 1000000).toString().padStart(6, "0")
truncate(hmac) ==
    LET offset == hmac[20] % 16
        code == (hmac[offset + 1] % 128) * 16777216
                + (hmac[offset + 2] % 256) * 65536
                + (hmac[offset + 3] % 256) * 256
                + (hmac[offset + 4] % 256)
        n == code % 1000000
    IN [i \in 1..6 |-> (n \div (10 ^ (6 - i))) % 10]

\* the code of one counter value
hotp(secret, counter) == truncate(hmacSha1(base32Decode(secret), timeBuffer(counter)))

\* two secrets a caller may submit
SecretA == <<"J","B","S","W","Y","3","D","P">>
SecretB == <<"k","r","u","g","s","4","t","f">>
Secrets == {SecretA, SecretB}

\* hotp tabulated once for the secrets and the counters of the model
firstCounter == (StartTime \div 1000) \div TIME_STEP - 2
lastCounter == ((StartTime + (MaxTicks + 1) * SESSION_DURATION_MS) \div 1000) \div TIME_STEP + 2
hotpTable == [a \in Secrets \X (firstCounter..lastCounter) |-> hotp(a[1], a[2])] @@ <<>>

\* Math.floor(Date.now() / 1000 / timeStep)
counterAt(t) == (t \div 1000) \div TIME_STEP

\* hotp, looked up where the table of the model's secrets and counters has it
codeOf(secret, counter) ==
    IF <<secret, counter>> \in DOMAIN hotpTable THEN hotpTable[<<secret, counter>>]
    ELSE hotp(secret, counter)

generateTOTP(secret, t) == codeOf(secret, counterAt(t))

\* a drift window that looks one step ahead instead of one step back
prevCodeStrAhead(secret, t) == codeOf(secret, counterAt(t) + 1)

\* the previous-window code computed inline by the verify branch
prevCodeStr(secret, t) == codeOf(secret, counterAt(t) - 1)

\* crypto.subtle.importKey("raw", key, HMAC) rejects a key of length zero
importKeyThrows(secret) == base32Decode(secret) = <<>>

\* a generator that emits a single symbol
generateSecretShort(bytes) == <<alphabet[(bytes[1] % 32) + 1]>>

\* generateSecret: alphabet[bytes[i] % 32] for 20 random bytes
generateSecret(bytes) == [i \in 1..Len(bytes) |-> alphabet[(bytes[i] % 32) + 1]]

(***************************************************************************)
(* Requests and responses                                                  *)
(***************************************************************************)
NoData == [kind |-> "none"]

Request(svc, action, ip, code, secret, sessionToken, data) ==
    [svc |-> svc, action |-> action, ip |-> ip, code |-> code, secret |-> secret,
     sessionToken |-> sessionToken, data |-> data]

NoRequest == Request("none", "none", "none", NoCode, Undefined, NoToken, NoData)

\* a JSON response: its HTTP status and the fields of its body; a field the body
\* does not carry reads as FALSE / NoToken / NULL / "" (undefined)
Response(status) ==
    [status |-> status, valid |-> FALSE, rateLimited |-> FALSE, sessionToken |-> NoToken,
     sessionExpired |-> FALSE, configured |-> FALSE, success |-> FALSE,
     secret |-> Undefined,
     error |-> ""]

(***************************************************************************)
(* Rate limiter                                                            *)
(***************************************************************************)
\* the rows the query of checkRateLimit selects
failedInWindow(ipAddress) ==
    LET fiveMinutesAgo == now - RATE_WINDOW_MS
        selected == { r \in BagToSet(auth_attempts) :
                        /\ r.ip_address = ipAddress
                        /\ r.success = FALSE
                        /\ r.created_at >= fiveMinutesAgo }
    IN [r \in selected |-> auth_attempts[r]]

\* a limiter whose query drops .eq("success", false)
checkRateLimitAllRows(ipAddress) ==
    LET selected == { r \in BagToSet(auth_attempts) :
                        r.ip_address = ipAddress /\ r.created_at >= now - RATE_WINDOW_MS }
        attemptsCount == BagCardinality([r \in selected |-> auth_attempts[r]])
    IN [blocked |-> attemptsCount >= RATE_LIMIT, attemptsCount |-> attemptsCount]

\* a limiter that never blocks
checkRateLimitNever(ipAddress) ==
    [blocked |-> FALSE, attemptsCount |-> BagCardinality(failedInWindow(ipAddress))]

\* a limiter that blocks only above the threshold
checkRateLimitAbove(ipAddress) ==
    LET attemptsCount == BagCardinality(failedInWindow(ipAddress)) IN
    [blocked |-> attemptsCount > RATE_LIMIT, attemptsCount |-> attemptsCount]

\* a limiter whose query drops .eq("ip_address", ipAddress)
checkRateLimitAnyone(ipAddress) ==
    LET attemptsCount == BagCardinality(failedInWindow("X")) + BagCardinality(failedInWindow("Y")) IN
    [blocked |-> attemptsCount >= RATE_LIMIT, attemptsCount |-> attemptsCount]

\* a limiter whose query drops .gte("created_at", fiveMinutesAgo)
checkRateLimitForever(ipAddress) ==
    LET selected == { r \in BagToSet(auth_attempts) :
                        r.ip_address = ipAddress /\ r.success = FALSE }
        attemptsCount == BagCardinality([r \in selected |-> auth_attempts[r]])
    IN [blocked |-> attemptsCount >= RATE_LIMIT, attemptsCount |-> attemptsCount]

checkRateLimit(ipAddress) ==
    LET attemptsCount == BagCardinality(failedInWindow(ipAddress)) IN
    [blocked |-> attemptsCount >= RATE_LIMIT, attemptsCount |-> attemptsCount]

\* a log that records failures only
logAttemptFailures(ipAddress, success) ==
    IF success THEN auth_attempts
    ELSE auth_attempts (+) SetToBag({[ip_address |-> ipAddress, action |-> "totp_verify",
                                      success |-> FALSE, created_at |-> now]})

\* the table after logAttempt; created_at is the column's DEFAULT now()
logAttempt(ipAddress, success) ==
    auth_attempts (+) SetToBag({[ip_address |-> ipAddress, action |-> "totp_verify",
                                 success |-> success, created_at |-> now]})

(***************************************************************************)
(* Secret store accessor                                                   *)
(***************************************************************************)
\* .from(table).select("value").eq("key", k).maybeSingle(), then ?.value
valueOf(table, k) == IF k \in DOMAIN table THEN table[k] ELSE Undefined

\* .upsert({ key, value }, { onConflict: "key" })
upsert(table, k, v) == [x \in DOMAIN table \cup {k} |-> IF x = k THEN v ELSE table[x]]

\* a lookup that prefers the legacy table
getTOTPSecretLegacyFirst ==
    IF Truthy(valueOf(site_settings, "totp_secret"))
    THEN valueOf(site_settings, "totp_secret")
    ELSE orNull(valueOf(admin_secrets, "totp_secret"))

getTOTPSecret ==
    IF Truthy(valueOf(admin_secrets, "totp_secret"))
    THEN valueOf(admin_secrets, "totp_secret")
    ELSE orNull(valueOf(site_settings, "totp_secret"))

(***************************************************************************)
(* Session manager                                                         *)
(***************************************************************************)
\* 32 random bytes in hex: a token no earlier call has produced
generateSessionToken == issued + 1

\* a check that takes a session for valid at the very instant it expires
validateSessionInclusive(sessionToken) ==
    /\ sessionToken # NoToken
    /\ sessionToken \in DOMAIN admin_sessions
    /\ admin_sessions[sessionToken] >= now

validateSession(sessionToken) ==
    /\ sessionToken # NoToken
    /\ sessionToken \in DOMAIN admin_sessions
    /\ admin_sessions[sessionToken] > now

\* a renewal that adds the lifetime to the old expiry instead of the clock
extendSessionFromExpiry(sessionToken) ==
    [t \in DOMAIN admin_sessions |->
        IF t = sessionToken THEN admin_sessions[t] + SESSION_DURATION_MS ELSE admin_sessions[t]]

\* the table after extendSession: an update that matches no row changes nothing
extendSession(sessionToken) ==
    [t \in DOMAIN admin_sessions |->
        IF t = sessionToken THEN now + SESSION_DURATION_MS ELSE admin_sessions[t]]

\* a createSession that inserts without cleaning up
createSessionNoCleanup ==
    [t \in DOMAIN admin_sessions \cup {generateSessionToken} |->
        IF t = generateSessionToken THEN now + SESSION_DURATION_MS ELSE admin_sessions[t]]

\* a createSession that keeps one session at a time
createSessionSingle ==
    [t \in {generateSessionToken} |-> now + SESSION_DURATION_MS]

\* the table after createSession: delete expires_at < now, then insert the new row
createSession ==
    LET sessionToken == generateSessionToken
        expiresAt == now + SESSION_DURATION_MS
        kept == { t \in DOMAIN admin_sessions : ~(admin_sessions[t] < now) }
    IN [t \in kept \cup {sessionToken} |->
          IF t = sessionToken THEN expiresAt ELSE admin_sessions[t]]

(***************************************************************************)
(* Errors of the data store                                                *)
(***************************************************************************)
\* A statement on the data store either takes effect or returns { error } and
\* changes nothing; the client never throws. F is the set of statements that
\* return an error during one call.
SessionRead == "admin_sessions.select"
SessionUpdate == "admin_sessions.update"
SessionDelete == "admin_sessions.delete"
SessionInsert == "admin_sessions.insert"
SecretUpsert == "admin_secrets.upsert"
SettingUpsert == "site_settings.upsert"
AttemptRead == "auth_attempts.select"
AttemptInsert == "auth_attempts.insert"
NoFaults == {}

\* a limiter that blocks when its read returns an error
checkRateLimitFailClosed(ipAddress, F) ==
    IF AttemptRead \in F THEN [blocked |-> TRUE, attemptsCount |-> 0]
    ELSE checkRateLimit(ipAddress)

\* checkRateLimit: if (error) return { blocked: false, attemptsCount: 0 }
checkRateLimitF(ipAddress, F) ==
    IF AttemptRead \in F THEN [blocked |-> FALSE, attemptsCount |-> 0]
    ELSE checkRateLimit(ipAddress)

\* logAttempt: the error of the insert is not looked at
logAttemptF(ipAddress, success, F) ==
    IF AttemptInsert \in F THEN auth_attempts ELSE logAttempt(ipAddress, success)

\* validateSession: if (error || !data) return false
validateSessionF(sessionToken, F) ==
    IF sessionToken # NoToken /\ SessionRead \in F THEN FALSE
    ELSE validateSession(sessionToken)

\* extendSession: the caller drops the result
extendSessionF(sessionToken, F) ==
    IF SessionUpdate \in F THEN admin_sessions ELSE extendSession(sessionToken)

\* createSession: neither the delete nor the insert is checked for an error
createSessionF(F) ==
    IF F \cap {SessionDelete, SessionInsert} = {} THEN createSession
    ELSE LET sessionToken == generateSessionToken
             expiresAt == now + SESSION_DURATION_MS
             kept == IF SessionDelete \in F THEN DOMAIN admin_sessions
                     ELSE { t \in DOMAIN admin_sessions : ~(admin_sessions[t] < now) }
             rows == IF SessionInsert \in F THEN kept ELSE kept \cup {sessionToken}
         IN [t \in rows |-> IF t = sessionToken THEN expiresAt ELSE admin_sessions[t]]

(***************************************************************************)
(* Verification service (totp-verify)                                      *)
(***************************************************************************)
Check ==
    /\ req' = Request("totp-verify", "check", "none", NoCode, Undefined, NoToken, NoData)
    /\ resp' = [Response(200) EXCEPT !.configured = Truthy(getTOTPSecret)]
    /\ faults' = NoFaults
    /\ UNCHANGED <<now, authTables, site_settings, contentTables, inflight>>

ValidateSessionF(sessionToken, F) ==
    LET isValid == validateSessionF(sessionToken, F) IN
    /\ req' = Request("totp-verify", "validate_session", "none", NoCode, Undefined, sessionToken, NoData)
    /\ admin_sessions' = IF isValid THEN extendSessionF(sessionToken, F) ELSE admin_sessions
    /\ resp' = [Response(200) EXCEPT !.valid = isValid]
    /\ faults' = F
    /\ UNCHANGED <<now, admin_secrets, auth_attempts, issued, site_settings, contentTables,
                   inflight>>

ValidateSession(sessionToken) == ValidateSessionF(sessionToken, NoFaults)

Generate(bytes) ==
    /\ req' = Request("totp-verify", "generate", "none", NoCode, Undefined, NoToken, NoData)
    /\ resp' = [Response(200) EXCEPT !.secret = generateSecret(bytes)]
    /\ faults' = NoFaults
    /\ UNCHANGED <<now, authTables, site_settings, contentTables, inflight>>

SetupF(secret, code, F) ==
    /\ req' = Request("totp-verify", "setup", "none", code, secret, NoToken, NoData)
    /\ faults' = F
    /\ IF ~Truthy(secret)
       THEN /\ resp' = [Response(400) EXCEPT !.error = "Missing secret"]
            /\ UNCHANGED <<authTables, site_settings>>
       ELSE /\ admin_secrets' = IF SecretUpsert \in F THEN admin_secrets
                                ELSE upsert(admin_secrets, "totp_secret", secret)
            /\ IF SettingUpsert \in F
               THEN /\ resp' = [Response(500) EXCEPT !.error = "Failed to save secret"]
                    /\ UNCHANGED <<site_settings, admin_sessions, issued>>
               ELSE /\ issued < MaxSessions
                    /\ site_settings' = upsert(site_settings, "totp_secret", secret)
                    /\ admin_sessions' = createSessionF(F)
                    /\ issued' = issued + 1
                    /\ resp' = [Response(200) EXCEPT !.success = TRUE,
                                                     !.sessionToken = generateSessionToken]
            /\ UNCHANGED auth_attempts
    /\ UNCHANGED <<now, contentTables, inflight>>

Setup(secret, code) == SetupF(secret, code, NoFaults)

\* the verify branch after the rate-limit check: the code and the secret are looked
\* at, the attempt is logged and a session is created for a valid code
VerifyEvaluate(ip, code, secret, maxRows, F) ==
    LET totpSecret == IF Truthy(secret) THEN secret ELSE getTOTPSecret
        isValid == code = generateTOTP(totpSecret, now) \/ code = prevCodeStr(totpSecret, now)
    IN
    IF ~Truthy(code)
    THEN /\ resp' = [Response(400) EXCEPT !.error = "Missing code"]
         /\ UNCHANGED <<auth_attempts, admin_sessions, issued>>
    ELSE IF ~Truthy(totpSecret)
    THEN /\ resp' = [Response(400) EXCEPT !.error = "TOTP not configured"]
         /\ UNCHANGED <<auth_attempts, admin_sessions, issued>>
    ELSE IF importKeyThrows(totpSecret)
    THEN /\ resp' = [Response(500) EXCEPT !.error = "Key length is zero"]
         /\ UNCHANGED <<auth_attempts, admin_sessions, issued>>
    ELSE /\ BagCardinality(auth_attempts) < maxRows
         /\ auth_attempts' = logAttemptF(ip, isValid, F)
         /\ IF isValid
            THEN /\ issued < MaxSessions
                 /\ admin_sessions' = createSessionF(F)
                 /\ issued' = issued + 1
                 /\ resp' = [Response(200) EXCEPT !.valid = TRUE,
                                                  !.sessionToken = generateSessionToken]
            ELSE /\ resp' = Response(200)
                 /\ UNCHANGED <<admin_sessions, issued>>

VerifyF(ip, code, secret, maxRows, F) ==
    LET rl == checkRateLimitF(ip, F) IN
    /\ req' = Request("totp-verify", "verify", ip, code, secret, NoToken, NoData)
    /\ faults' = F
    /\ IF rl.blocked
       THEN /\ resp' = [Response(429) EXCEPT !.rateLimited = TRUE,
                           !.error = "Too many failed attempts. Please wait 5 minutes."]
            /\ UNCHANGED <<auth_attempts, admin_sessions, issued>>
       ELSE VerifyEvaluate(ip, code, secret, maxRows, F)
    /\ UNCHANGED <<now, admin_secrets, site_settings, contentTables, inflight>>

Verify(ip, code, secret, maxRows) == VerifyF(ip, code, secret, maxRows, NoFaults)

\* the passage of time, to a later instant
Tick(t) ==
    /\ t > now
    /\ now' = t
    /\ UNCHANGED <<authTables, site_settings, contentTables, req, resp, faults, inflight>>

(***************************************************************************)
(* Authorized mutation service (admin-operations)                          *)
(***************************************************************************)
\* text.trim() for the whitespace " "
RECURSIVE trimStart(_)
trimStart(s) == IF Len(s) > 0 /\ Head(s) = " " THEN trimStart(Tail(s)) ELSE s
RECURSIVE trimEnd(_)
trimEnd(s) == IF Len(s) > 0 /\ s[Len(s)] = " " THEN trimEnd(SubSeq(s, 1, Len(s) - 1)) ELSE s
trim(s) == trimEnd(trimStart(s))

\* text.slice(0, maxLength)
slice(s, maxLength) == SubSeq(s, 1, IF Len(s) < maxLength THEN Len(s) ELSE maxLength)

sanitizeText(text, maxLength) ==
    IF ~Truthy(text) THEN EmptyString ELSE slice(trim(text), maxLength)

\* A URL string is held as what new URL(url) makes of it: <<protocol, rest>>;
\* a string that new URL rejects is any other sequence.
isValidUrl(url) ==
    /\ Truthy(url)
    /\ Len(url) = 2
    /\ url[1] \in {"http:", "https:"}

usernameChars ==
    { alphabet[i] : i \in 1..26 } \cup { lowercase[i] : i \in 1..26 }
        \cup {"0","1","2","3","4","5","6","7","8","9","_","."}

\* /^[a-zA-Z0-9_.]{1,100}$/
isValidUsername(username) ==
    /\ Truthy(username)
    /\ Len(username) >= 1 /\ Len(username) <= 100
    /\ \A i \in 1..Len(username) : username[i] \in usernameChars

\* setting keys are whole strings; an absent key is ""
isValidSettingKey(key) == key # "" /\ key \in {"og_image", "totp_secret"}

\* ids the model has for rows of projects, project_images and categories
ProjectIds == {1}
ImageIds == {1}
CategoryIds == {1, 2}

\* the effect of one branch of the switch: its response and the tables after it
Effect(r, P, I, C, S, ST) ==
    /\ resp' = r
    /\ projects' = P
    /\ project_images' = I
    /\ categories' = C
    /\ social_links' = S
    /\ site_settings' = ST

\* a branch that returns without writing
Reply(r) == Effect(r, projects, project_images, categories, social_links, site_settings)

Invalid(msg) == Reply([Response(400) EXCEPT !.error = msg])
Success == [Response(200) EXCEPT !.success = TRUE]

\* a table without the rows of the ids in gone
without(table, gone) == [x \in DOMAIN table \ gone |-> table[x]]

add_project(data) ==
    IF \/ ~Truthy(data.title) \/ ~isString(data.title)
       \/ Len(trim(data.title)) = 0 \/ Len(data.title) > 200
    THEN Invalid("Invalid title. Must be 1-200 characters.")
    ELSE IF Truthy(data.description)
            /\ (~isString(data.description) \/ Len(data.description) > 1000)
    THEN Invalid("Invalid description. Must be under 1000 characters.")
    ELSE IF Truthy(data.image_url) /\ ~isValidUrl(data.image_url)
    THEN Invalid("Invalid image URL. Must be a valid http/https URL.")
    ELSE IF Truthy(data.link) /\ ~isValidUrl(data.link)
    THEN Invalid("Invalid link URL. Must be a valid http/https URL.")
    ELSE LET sanitizedData ==
                 [title |-> sanitizeText(data.title, 200),
                  description |-> orNull(sanitizeText(data.description, 1000)),
                  image_url |-> orNull(data.image_url),
                  category |-> orNull(sanitizeText(data.category, 100)),
                  link |-> orNull(data.link)]
         IN \E id \in ProjectIds \ DOMAIN projects :
               Effect(Success, upsert(projects, id, sanitizedData),
                      project_images, categories, social_links, site_settings)

update_project(data) ==
    IF data.id = NoId
    THEN Invalid("Invalid project ID.")
    ELSE IF data.title # Undefined
            /\ (~isString(data.title) \/ Len(trim(data.title)) = 0 \/ Len(data.title) > 200)
    THEN Invalid("Invalid title. Must be 1-200 characters.")
    ELSE IF data.description # Undefined /\ data.description # NULL
            /\ Len(data.description) > 1000
    THEN Invalid("Invalid description. Must be under 1000 characters.")
    ELSE IF data.image_url # Undefined /\ data.image_url # NULL /\ ~isValidUrl(data.image_url)
    THEN Invalid("Invalid image URL. Must be a valid http/https URL.")
    ELSE IF data.link # Undefined /\ data.link # NULL /\ ~isValidUrl(data.link)
    THEN Invalid("Invalid link URL. Must be a valid http/https URL.")
    ELSE LET updated(row) ==
                 [title |-> IF data.title # Undefined
                            THEN sanitizeText(data.title, 200) ELSE row.title,
                  description |-> IF data.description # Undefined
                                  THEN (IF Truthy(data.description)
                                        THEN sanitizeText(data.description, 1000) ELSE NULL)
                                  ELSE row.description,
                  image_url |-> IF data.image_url # Undefined
                                THEN orNull(data.image_url) ELSE row.image_url,
                  category |-> IF data.category # Undefined
                               THEN orNull(sanitizeText(data.category, 100)) ELSE row.category,
                  link |-> IF data.link # Undefined THEN orNull(data.link) ELSE row.link]
         IN Effect(Success,
                   [x \in DOMAIN projects |->
                       IF x = data.id THEN updated(projects[x]) ELSE projects[x]],
                   project_images, categories, social_links, site_settings)

\* project_images.project_id REFERENCES projects(id) ON DELETE CASCADE
delete_project(data) ==
    IF data.id = NoId
    THEN Invalid("Invalid project ID.")
    ELSE Effect(Success, without(projects, {data.id}),
                without(project_images,
                        { i \in DOMAIN project_images : project_images[i].project_id = data.id }),
                categories, social_links, site_settings)

\* data.images holds one image; the insert fails on an unknown project_id
add_project_images(data) ==
    IF data.project_id = NoId
    THEN Invalid("Invalid project_id or images array.")
    ELSE IF \E k \in 1..Len(data.images) : ~isValidUrl(data.images[k].image_url)
    THEN Invalid("Invalid image URL.")
    ELSE IF data.project_id \notin DOMAIN projects
    THEN Reply([Response(500) EXCEPT !.error = "violates foreign key constraint"])
    ELSE \E id \in ImageIds \ DOMAIN project_images :
            Effect(Success, projects,
                   upsert(project_images, id,
                          [project_id |-> data.project_id,
                           image_url |-> data.images[1].image_url,
                           is_primary |-> data.images[1].is_primary,
                           display_order |-> 0]),
                   categories, social_links, site_settings)

update_project_image(data) ==
    IF data.id = NoId
    THEN Invalid("Invalid image ID.")
    ELSE Effect(Success, projects,
                [x \in DOMAIN project_images |->
                    IF x = data.id
                    THEN [project_images[x] EXCEPT !.is_primary = data.is_primary]
                    ELSE project_images[x]],
                categories, social_links, site_settings)

delete_project_image(data) ==
    IF data.id = NoId
    THEN Invalid("Invalid image ID.")
    ELSE Effect(Success, projects, without(project_images, {data.id}),
                categories, social_links, site_settings)

set_primary_image(data) ==
    IF data.project_id = NoId \/ data.image_id = NoId
    THEN Invalid("Invalid project_id or image_id.")
    ELSE Effect(Success, projects,
                [x \in DOMAIN project_images |->
                    IF x = data.image_id
                    THEN [project_images[x] EXCEPT !.is_primary = TRUE]
                    ELSE IF project_images[x].project_id = data.project_id
                    THEN [project_images[x] EXCEPT !.is_primary = FALSE]
                    ELSE project_images[x]],
                categories, social_links, site_settings)

add_category(data) ==
    IF \/ ~Truthy(data.name) \/ ~isString(data.name)
       \/ Len(trim(data.name)) = 0 \/ Len(data.name) > 100
    THEN Invalid("Invalid category name. Must be 1-100 characters.")
    ELSE IF \E c \in DOMAIN categories : categories[c].name = sanitizeText(data.name, 100)
    THEN Invalid("Category already exists.")
    ELSE \E id \in CategoryIds \ DOMAIN categories :
            Effect(Success, projects, project_images,
                   upsert(categories, id,
                          [name |-> sanitizeText(data.name, 100), is_default |-> FALSE]),
                   social_links, site_settings)

delete_category(data) ==
    IF data.id = NoId
    THEN Invalid("Invalid category ID.")
    ELSE IF data.id \in DOMAIN categories /\ categories[data.id].is_default
    THEN Invalid("Cannot delete default categories.")
    ELSE Effect(Success, projects, project_images, without(categories, {data.id}),
                social_links, site_settings)

update_social_links(data) ==
    IF data.instagram # Undefined /\ data.instagram # EmptyString
       /\ ~isValidUsername(data.instagram)
    THEN Invalid("Invalid Instagram username.")
    ELSE IF data.telegram # Undefined /\ data.telegram # EmptyString
            /\ ~isValidUsername(data.telegram)
    THEN Invalid("Invalid Telegram username.")
    ELSE LET afterInstagram ==
                 IF data.instagram # Undefined
                 THEN upsert(social_links, "instagram", sanitizeText(data.instagram, 100))
                 ELSE social_links
             afterTelegram ==
                 IF data.telegram # Undefined
                 THEN upsert(afterInstagram, "telegram", sanitizeText(data.telegram, 100))
                 ELSE afterInstagram
         IN Effect(Success, projects, project_images, categories, afterTelegram,
                   site_settings)

update_setting(data) ==
    IF ~isValidSettingKey(data.key)
    THEN Invalid("Invalid setting key. Allowed: og_image, totp_secret.")
    ELSE IF data.key = "og_image" /\ Truthy(data.value) /\ ~isValidUrl(data.value)
    THEN Invalid("Invalid OG image URL. Must be a valid http/https URL.")
    ELSE IF Truthy(data.value) /\ (~isString(data.value) \/ Len(data.value) > 1000)
    THEN Invalid("Value too long. Maximum 1000 characters.")
    ELSE Effect(Success, projects, project_images, categories, social_links,
                upsert(site_settings, data.key, orNull(data.value)))

\* the switch of the handler
dispatch(action, data) ==
    CASE action = "add_project" -> add_project(data)
      [] action = "update_project" -> update_project(data)
      [] action = "delete_project" -> delete_project(data)
      [] action = "add_project_images" -> add_project_images(data)
      [] action = "update_project_image" -> update_project_image(data)
      [] action = "delete_project_image" -> delete_project_image(data)
      [] action = "set_primary_image" -> set_primary_image(data)
      [] action = "add_category" -> add_category(data)
      [] action = "delete_category" -> delete_category(data)
      [] action = "update_social_links" -> update_social_links(data)
      [] action = "update_setting" -> update_setting(data)
      [] OTHER -> Invalid("Invalid action")

\* a gate that looks the token up and forgets to compare expires_at
gatePassesAnyRow(sessionToken) == sessionToken \in DOMAIN admin_sessions

\* the session gate of the handler: what it lets through
gatePasses(sessionToken) == validateSession(sessionToken)

\* F: the errors of the statements on admin_sessions; the statements of the
\* switch take effect
MutationF(sessionToken, action, data, F) ==
    /\ req' = Request("admin-operations", action, "none", NoCode, Undefined, sessionToken, data)
    /\ faults' = F
    /\ IF ~(gatePasses(sessionToken) /\ SessionRead \notin F)
       THEN /\ resp' = [Response(401) EXCEPT !.error = "Session expired",
                                             !.sessionExpired = TRUE]
            /\ UNCHANGED <<admin_sessions, projects, project_images, categories,
                           social_links, site_settings>>
       ELSE /\ admin_sessions' = extendSessionF(sessionToken, F)
            /\ dispatch(action, data)
    /\ UNCHANGED <<now, admin_secrets, auth_attempts, issued, storage, inflight>>

Mutation(sessionToken, action, data) == MutationF(sessionToken, action, data, NoFaults)

(***************************************************************************)
(* Calls that overlap                                                      *)
(***************************************************************************)
\* Both services check the session and then renew it in two awaited statements:
\* validateSession reads the row; extendSession computes Date.now() + 30 min and
\* sends the update. BeginCall is a call up to the moment its update has been
\* computed, FinishCall is the update reaching the table and the rest of the
\* handler. Calls are numbered in the order in which they pass the check, and
\* inflight keeps them after they have finished.
BeginCall(r) ==
    IF ~validateSession(r.sessionToken)
    THEN IF r.svc = "totp-verify"
         THEN ValidateSession(r.sessionToken)
         ELSE Mutation(r.sessionToken, r.action, r.data)
    ELSE LET id == Cardinality(DOMAIN inflight) + 1 IN
         /\ id <= MaxCalls
         /\ inflight' = inflight @@
                (id :> [request |-> r, checkedAt |-> now,
                        expiresAt |-> now + SESSION_DURATION_MS, stage |-> "extending"])
         /\ UNCHANGED <<now, authTables, site_settings, contentTables, req, resp, faults>>

FinishCall(id) ==
    LET call == inflight[id]
        r == call.request
    IN
    /\ call.stage = "extending"
    /\ inflight' = [inflight EXCEPT ![id].stage = "done"]
    /\ admin_sessions' = [t \in DOMAIN admin_sessions |->
                            IF t = r.sessionToken THEN call.expiresAt ELSE admin_sessions[t]]
    /\ req' = r
    /\ faults' = NoFaults
    /\ IF r.svc = "totp-verify"
       THEN Reply([Response(200) EXCEPT !.valid = TRUE])
       ELSE dispatch(r.action, r.data)
    /\ UNCHANGED <<now, admin_secrets, auth_attempts, issued, storage>>

\* The verify branch reads the attempt log (checkRateLimit) and writes its own row
\* (logAttempt) in two awaited statements. BeginVerify is a call up to the answer of
\* checkRateLimit, FinishVerify is the rest of the branch.
BeginVerify(ip, code, maxRows) ==
    LET rl == checkRateLimit(ip) IN
    IF rl.blocked
    THEN Verify(ip, code, Undefined, maxRows)
    ELSE LET id == Cardinality(DOMAIN inflight) + 1 IN
         /\ id <= MaxCalls
         /\ inflight' = inflight @@
                (id :> [request |-> Request("totp-verify", "verify", ip, code, Undefined,
                                            NoToken, NoData),
                        checkedAt |-> now, attemptsCount |-> rl.attemptsCount,
                        stage |-> "checked"])
         /\ UNCHANGED <<now, authTables, site_settings, contentTables, req, resp, faults>>

FinishVerify(id, maxRows) ==
    LET call == inflight[id]
        r == call.request
    IN
    /\ call.stage = "checked"
    /\ inflight' = [inflight EXCEPT ![id].stage = "done"]
    /\ req' = r
    /\ faults' = NoFaults
    /\ VerifyEvaluate(r.ip, r.code, r.secret, maxRows, NoFaults)
    /\ UNCHANGED <<now, admin_secrets, site_settings, contentTables>>

\* createSession computes the token and expiresAt, then awaits the delete of the
\* expired rows, then awaits the insert of the new row. The delete compares with the
\* clock at the moment it is sent.
\* a cleanup that deletes every row
deleteExpiredAll == <<>>

\* .delete().lt("expires_at", new Date().toISOString())
deleteExpired == [t \in { x \in DOMAIN admin_sessions : ~(admin_sessions[x] < now) } |->
                    admin_sessions[t]]

\* .insert({ session_token, expires_at })
insertSession(sessionToken, expiresAt) ==
    [t \in DOMAIN admin_sessions \cup {sessionToken} |->
        IF t = sessionToken THEN expiresAt ELSE admin_sessions[t]]

\* a setup call up to the first lines of createSession: both secrets are written,
\* the token is drawn and expiresAt computed; running is the set of calls that have
\* not completed at that moment
BeginSetup(secret) ==
    LET id == Cardinality(DOMAIN inflight) + 1 IN
    /\ Truthy(secret)
    /\ id <= MaxCalls
    /\ admin_secrets' = upsert(admin_secrets, "totp_secret", secret)
    /\ site_settings' = upsert(site_settings, "totp_secret", secret)
    /\ issued' = issued + 1
    /\ inflight' = inflight @@
           (id :> [request |-> Request("totp-verify", "setup", "none", NoCode, secret,
                                       NoToken, NoData),
                   checkedAt |-> now, sessionToken |-> generateSessionToken,
                   running |-> { i \in DOMAIN inflight : inflight[i].stage # "done" },
                   expiresAt |-> now + SESSION_DURATION_MS, stage |-> "cleanup"])
    /\ UNCHANGED <<now, admin_sessions, auth_attempts, contentTables, req, resp, faults>>

\* the delete of createSession taking effect
CleanupStep(id) ==
    /\ inflight[id].stage = "cleanup"
    /\ inflight' = [inflight EXCEPT ![id].stage = "insert"]
    /\ admin_sessions' = deleteExpired
    /\ UNCHANGED <<now, admin_secrets, auth_attempts, issued, site_settings, contentTables,
                   req, resp, faults>>

\* the insert of createSession taking effect, and the answer of setup
InsertStep(id) ==
    LET call == inflight[id] IN
    /\ call.stage = "insert"
    /\ inflight' = [inflight EXCEPT ![id].stage = "done"]
    /\ admin_sessions' = insertSession(call.sessionToken, call.expiresAt)
    /\ req' = call.request
    /\ faults' = NoFaults
    /\ resp' = [Response(200) EXCEPT !.success = TRUE, !.sessionToken = call.sessionToken]
    /\ UNCHANGED <<now, admin_secrets, auth_attempts, issued, site_settings, contentTables>>

(***************************************************************************)
(* Image upload service (upload-image)                                     *)
(***************************************************************************)
\* bytes[i] of a Uint8Array, 0-based; -1 stands for undefined past the end
byteAt(bytes, i) == IF i + 1 <= Len(bytes) THEN bytes[i + 1] ELSE -1

\* a check that takes every RIFF container for WebP
validateImageMagicBytesRiff(bytes) ==
    IF byteAt(bytes, 0) = 255 /\ byteAt(bytes, 1) = 216 /\ byteAt(bytes, 2) = 255
    THEN [valid |-> TRUE, mimeType |-> "image/jpeg"]
    ELSE IF byteAt(bytes, 0) = 137 /\ byteAt(bytes, 1) = 80
            /\ byteAt(bytes, 2) = 78 /\ byteAt(bytes, 3) = 71
    THEN [valid |-> TRUE, mimeType |-> "image/png"]
    ELSE IF byteAt(bytes, 0) = 82 /\ byteAt(bytes, 1) = 73
            /\ byteAt(bytes, 2) = 70 /\ byteAt(bytes, 3) = 70
    THEN [valid |-> TRUE, mimeType |-> "image/webp"]
    ELSE IF byteAt(bytes, 0) = 71 /\ byteAt(bytes, 1) = 73
            /\ byteAt(bytes, 2) = 70 /\ byteAt(bytes, 3) = 56
    THEN [valid |-> TRUE, mimeType |-> "image/gif"]
    ELSE [valid |-> FALSE, mimeType |-> "null"]

validateImageMagicBytes(bytes) ==
    IF byteAt(bytes, 0) = 255 /\ byteAt(bytes, 1) = 216 /\ byteAt(bytes, 2) = 255
    THEN [valid |-> TRUE, mimeType |-> "image/jpeg"]
    ELSE IF byteAt(bytes, 0) = 137 /\ byteAt(bytes, 1) = 80
            /\ byteAt(bytes, 2) = 78 /\ byteAt(bytes, 3) = 71
    THEN [valid |-> TRUE, mimeType |-> "image/png"]
    ELSE IF byteAt(bytes, 0) = 82 /\ byteAt(bytes, 1) = 73
            /\ byteAt(bytes, 2) = 70 /\ byteAt(bytes, 3) = 70
            /\ byteAt(bytes, 8) = 87 /\ byteAt(bytes, 9) = 69
            /\ byteAt(bytes, 10) = 66 /\ byteAt(bytes, 11) = 80
    THEN [valid |-> TRUE, mimeType |-> "image/webp"]
    ELSE IF byteAt(bytes, 0) = 71 /\ byteAt(bytes, 1) = 73
            /\ byteAt(bytes, 2) = 70 /\ byteAt(bytes, 3) = 56
    THEN [valid |-> TRUE, mimeType |-> "image/gif"]
    ELSE [valid |-> FALSE, mimeType |-> "null"]

startsWith(s, prefix) == Len(s) >= Len(prefix) /\ SubSeq(s, 1, Len(prefix)) = prefix
includes(s, sub) ==
    \E i \in 1..Len(s) : i + Len(sub) - 1 <= Len(s) /\ SubSeq(s, i, i + Len(sub) - 1) = sub

pathChars == usernameChars \cup {"-", "/"}

isValidPath(path) ==
    IF includes(path, <<".", ".">>) \/ startsWith(path, <<"/">>)
    THEN FALSE
    ELSE IF ~startsWith(path, <<"p","r","o","j","e","c","t","s","/">>)
            /\ ~startsWith(path, <<"s","e","t","t","i","n","g","s","/">>)
    THEN FALSE
    ELSE Len(path) >= 1 /\ \A i \in 1..Len(path) : path[i] \in pathChars

\* /^\d{6}$/
isCodeFormat(totpCode) ==
    Len(totpCode) = 6 /\ \A i \in 1..6 : totpCode[i] \in 0..9

verifyTOTP(code, secret) ==
    code = generateTOTP(secret, now) \/ code = prevCodeStr(secret, now)

\* A file is [bytes, size]: its leading bytes and file.size. An absent form field
\* is NoFile (file), Undefined (path, totpCode) or NoToken (sessionToken).
NoFile == [bytes |-> <<>>, size |-> -1]

Upload(file, path, totpCode, sessionToken) ==
    LET secretData == valueOf(site_settings, "totp_secret")
        validation == validateImageMagicBytes(file.bytes)
    IN
    /\ req' = Request("upload-image", "upload", "none", totpCode, Undefined, sessionToken,
                      [kind |-> "upload", file |-> file, path |-> path])
    /\ IF file = NoFile \/ ~Truthy(path) \/ ~Truthy(totpCode)
       THEN /\ resp' = [Response(400) EXCEPT
                           !.error = "Missing required fields: file, path, totpCode"]
            /\ UNCHANGED storage
       ELSE IF ~isCodeFormat(totpCode)
       THEN /\ resp' = [Response(400) EXCEPT !.error = "Invalid TOTP code format"]
            /\ UNCHANGED storage
       ELSE IF ~isValidPath(path)
       THEN /\ resp' = [Response(400) EXCEPT !.error = "Invalid file path"]
            /\ UNCHANGED storage
       ELSE IF file.size > MAX_FILE_SIZE
       THEN /\ resp' = [Response(400) EXCEPT !.error = "File too large. Maximum size is 5MB"]
            /\ UNCHANGED storage
       ELSE IF ~Truthy(secretData)
       THEN /\ resp' = [Response(401) EXCEPT !.error = "Authentication not configured"]
            /\ UNCHANGED storage
       ELSE IF importKeyThrows(secretData)
       THEN /\ resp' = [Response(500) EXCEPT !.error = "Key length is zero"]
            /\ UNCHANGED storage
       ELSE IF ~verifyTOTP(totpCode, secretData)
       THEN /\ resp' = [Response(401) EXCEPT !.error = "Invalid authentication code"]
            /\ UNCHANGED storage
       ELSE IF ~validation.valid
       THEN /\ resp' = [Response(400) EXCEPT !.error = "Invalid image file."]
            /\ UNCHANGED storage
       ELSE /\ storage' = upsert(storage, path, validation.mimeType)
            /\ resp' = [Response(200) EXCEPT !.success = TRUE]
    /\ faults' = NoFaults
    /\ UNCHANGED <<now, authTables, site_settings, projects, project_images, categories, inflight,
                   social_links>>

(***************************************************************************)
(* Inputs                                                                  *)
(***************************************************************************)
\* two draws of crypto.getRandomValues(new Uint8Array(20))
RandomA == [i \in 1..20 |-> (37 * i + 11) % 256]
RandomB == [i \in 1..20 |-> (91 * i + 5) % 256]
\* client identities (first x-forwarded-for address)
Identities == {"X", "Y"}

\* a six-digit code that is no code of Secrets in the instants of the model
WrongCode == <<0, 0, 0, 0, 0, 0>>

\* session tokens a caller can present: none, the issued ones, one never issued
GarbageToken == MaxSessions + 1
Tokens == {NoToken, GarbageToken} \cup 1..MaxSessions

Url == <<"https:", "//example.com/a.png">>
BadUrl == <<"not a url">>
NoProject == [id |-> NoId, title |-> Undefined, description |-> Undefined,
              image_url |-> Undefined, category |-> Undefined, link |-> Undefined]
NoImage == [id |-> NoId, project_id |-> NoId, image_id |-> NoId, is_primary |-> FALSE,
            images |-> <<>>]

\* the requests to the mutation service: <<action, data>>
Mutations ==
    { <<"add_project", [NoProject EXCEPT !.title = <<"a">>]>>,
      <<"update_project", [NoProject EXCEPT !.id = 1, !.title = <<"b">>]>>,
      <<"delete_project", [NoProject EXCEPT !.id = 1]>>,
      <<"add_project_images",
        [NoImage EXCEPT !.project_id = 1,
                        !.images = <<[image_url |-> Url, is_primary |-> FALSE]>>]>>,
      <<"update_project_image", [NoImage EXCEPT !.id = 1, !.is_primary = TRUE]>>,
      <<"delete_project_image", [NoImage EXCEPT !.id = 1]>>,
      <<"set_primary_image", [NoImage EXCEPT !.project_id = 1, !.image_id = 1]>>,
      <<"add_category", [name |-> <<"c">>]>>,
      <<"delete_category", [id |-> 1]>>,
      <<"delete_category", [id |-> 2]>>,
      <<"update_social_links", [instagram |-> <<"u">>, telegram |-> Undefined]>>,
      <<"update_setting", [key |-> "og_image", value |-> Url]>>,
      <<"update_setting", [key |-> "og_image", value |-> BadUrl]>>,
      <<"update_setting", [key |-> "totp_secret", value |-> SecretB]>>,
      <<"update_setting", [key |-> "totp_secret", value |-> EmptyString]>>,
      <<"drop_everything", NoData>> }

Jpeg == [bytes |-> <<255, 216, 255, 224>>, size |-> 4]
NotAnImage == [bytes |-> <<60, 63, 112, 104>>, size |-> 4]
Files == {Jpeg, NotAnImage, NoFile}
Path == <<"p","r","o","j","e","c","t","s","/","a",".","p","n","g">>
Paths == {Path, <<".",".","/","a">>}

(***************************************************************************)
(* The system: sequential requests to the three services                   *)
(***************************************************************************)
\* the instants of Spec, SpecAdmin and SpecUpload: whole session lifetimes apart
Lifetimes == { StartTime + k * SESSION_DURATION_MS : k \in 0..MaxTicks }

\* the instants of SpecRate: the start, a whole rate window later, 1 ms after that
RateInstants == {StartTime, StartTime + RATE_WINDOW_MS, StartTime + RATE_WINDOW_MS + 1}

Init ==
    /\ now = StartTime
    /\ admin_secrets = <<>>
    /\ site_settings = <<>>
    /\ admin_sessions = <<>>
    /\ auth_attempts = EmptyBag
    /\ issued = 0
    /\ projects = <<>>
    /\ project_images = <<>>
    /\ categories = (1 :> [name |-> <<"w","e","b">>, is_default |-> TRUE])
    /\ social_links = <<>>
    /\ storage = <<>>
    /\ req = NoRequest
    /\ resp = Response(0)
    /\ faults = NoFaults
    /\ inflight = <<>>

\* the requests to the mutation service that write site_settings
SettingMutations == { m \in Mutations : m[1] = "update_setting" }

\* Spec: the verification service, and the mutation service on the settings
Next ==
    \/ Check
    \/ \E bytes \in {RandomA, RandomB} : Generate(bytes)
    \/ \E secret \in {Undefined, SecretA}, code \in {NoCode, generateTOTP(SecretA, now)} :
          Setup(secret, code)
    \/ \E ip \in Identities, secret \in {Undefined, SecretB},
          code \in {NoCode, WrongCode, generateTOTP(SecretA, now), generateTOTP(SecretB, now)} :
          Verify(ip, code, secret, MaxAttempts)
    \/ \E t \in Tokens : ValidateSession(t)
    \/ \E t \in Tokens, m \in SettingMutations : Mutation(t, m[1], m[2])
    \/ \E t \in Lifetimes : Tick(t)

Spec == Init /\ [][Next]_vars

\* the requests of SpecAdmin: every action of the switch, one setting among them
AdminMutations ==
    (Mutations \ SettingMutations)
      \cup {<<"update_setting", [key |-> "og_image", value |-> Url]>>}

\* SpecAdmin: the mutation service, with sessions issued by setup
NextAdmin ==
    \/ Setup(SecretA, NoCode)
    \/ \E t \in Tokens, m \in AdminMutations : Mutation(t, m[1], m[2])
    \/ \E t \in Lifetimes : Tick(t)

SpecAdmin == Init /\ [][NextAdmin]_vars

\* SpecUpload: the upload service, with secrets and sessions issued by setup
NextUpload ==
    \/ Setup(SecretA, NoCode)
    \/ \E file \in Files, path \in Paths, t \in Tokens,
          code \in {NoCode, WrongCode, generateTOTP(SecretA, now)} :
          Upload(file, path, code, t)
    \/ \E t \in Lifetimes : Tick(t)

SpecUpload == Init /\ [][NextUpload]_vars

\* SpecRate: logins of two identities against the rate limiter
RateLogins ==
    ({"X"} \X {NoCode, WrongCode, generateTOTP(SecretA, now)} \X {Undefined})
      \cup {<<"X", WrongCode, SecretB>>, <<"Y", WrongCode, Undefined>>}

\* the rows an identity has in the log
attemptsOf(ip) ==
    LET rows == { r \in BagToSet(auth_attempts) : r.ip_address = ip }
    IN BagCardinality([r \in rows |-> auth_attempts[r]])

NextRate ==
    \/ Setup(SecretA, NoCode)
    \/ \E login \in RateLogins :
          /\ login[1] = "Y" => attemptsOf("Y") < MaxOther
          /\ Verify(login[1], login[2], login[3], MaxAttemptsRate)
    \/ \E t \in RateInstants : Tick(t)

SpecRate == Init /\ [][NextRate]_vars

\* a request to the mutation service that passes validation
OgImage == <<"update_setting", [key |-> "og_image", value |-> Url]>>

\* the instants of SpecSession, in minutes after the start: around the end of the
\* lifetime of a session created at the start and of one renewed a minute before that
SessionMinutes == {0, 29, 30, 31, 59, 61}
SessionInstants == { StartTime + m * 60 * 1000 : m \in SessionMinutes }

\* SpecSession: sessions being issued, presented and renewed as time passes
NextSession ==
    \/ Setup(SecretA, NoCode)
    \/ Verify("X", generateTOTP(SecretA, now), Undefined, MaxAttempts)
    \/ \E t \in Tokens : ValidateSession(t)
    \/ \E t \in Tokens : Mutation(t, OgImage[1], OgImage[2])
    \/ \E t \in SessionInstants : Tick(t)

SpecSession == Init /\ [][NextSession]_vars

\* the calls of SpecOverlap
OverlapRequests ==
    { Request("totp-verify", "validate_session", "none", NoCode, Undefined, t, NoData) :
        t \in Tokens }
      \cup { Request("admin-operations", OgImage[1], "none", NoCode, Undefined, t, OgImage[2]) :
               t \in Tokens }

\* SpecOverlap: calls on sessions whose check and renewal interleave
NextOverlap ==
    \/ Setup(SecretA, NoCode)
    \/ \E r \in OverlapRequests : BeginCall(r)
    \/ \E id \in DOMAIN inflight : FinishCall(id)
    \/ \E t \in SessionInstants : Tick(t)

SpecOverlap == Init /\ [][NextOverlap]_vars

\* the statements on the data store that may return an error, at most one per call
SetupFaults == {NoFaults, {SecretUpsert}, {SettingUpsert}, {SessionDelete}, {SessionInsert}}
VerifyFaults == {NoFaults, {AttemptRead}, {AttemptInsert}, {SessionDelete}, {SessionInsert}}
GateFaults == {NoFaults, {SessionRead}, {SessionUpdate}}

\* SpecGate: sessions presented to both services while reads and updates of
\* admin_sessions may return an error
NextGate ==
    \/ Setup(SecretA, NoCode)
    \/ \E t \in Tokens, F \in GateFaults : ValidateSessionF(t, F)
    \/ \E t \in Tokens, F \in GateFaults : MutationF(t, OgImage[1], OgImage[2], F)
    \/ \E t \in Lifetimes : Tick(t)

SpecGate == Init /\ [][NextGate]_vars

\* SpecFault: setup and verify while the statements that write secrets, attempts
\* and sessions may return an error
NextFault ==
    \/ \E secret \in {SecretA, SecretB}, F \in SetupFaults : SetupF(secret, NoCode, F)
    \/ \E code \in {WrongCode, generateTOTP(SecretA, now)}, F \in VerifyFaults :
          VerifyF("X", code, Undefined, MaxAttempts, F)
    \/ \E t \in Lifetimes : Tick(t)

SpecFault == Init /\ [][NextFault]_vars

(***************************************************************************)
(* Properties                                                              *)
(***************************************************************************)
\* a step that handles a request: every handler leaves the clock alone and
\* records its request in req
Handles(svc, action) == now' = now /\ req'.svc = svc /\ req'.action = action

\* a valid session row: one whose expires_at is later than now
LiveSession(token) == \E t \in DOMAIN admin_sessions : t = token /\ now < admin_sessions[t]

\* C1: a request to the mutation service whose sessionToken is missing, unknown or
\* expired is answered 401 with sessionExpired:true and changes no table (projects,
\* images, categories, social links, settings, sessions, secrets, storage); so no
\* branch of the switch runs unless the token has a valid session row.
C1_GateRejectsWithoutEffect ==
    [][ (now' = now /\ req'.svc = "admin-operations" /\ ~LiveSession(req'.sessionToken))
          => /\ resp'.status = 401
             /\ resp'.sessionExpired
             /\ ~resp'.success
             /\ UNCHANGED <<projects, project_images, categories, social_links,
                            site_settings, admin_sessions, admin_secrets, storage>> ]_vars

\* C1 witness: an expired token was rejected while there was data to change
C1_Witness ==
    /\ req.svc = "admin-operations"
    /\ req.action = "delete_project"
    /\ req.sessionToken \in DOMAIN admin_sessions
    /\ admin_sessions[req.sessionToken] <= now
    /\ resp.sessionExpired
    /\ projects # <<>>

\* the codes of the two counters that verify accepts for a secret at this instant
AcceptedCodes(secret) ==
    {codeOf(secret, counterAt(now)), codeOf(secret, counterAt(now) - 1)}

\* C2: verify answers valid and issues a session only if the submitted code is the
\* code of the persisted secret (preferred store first) for the current or the
\* previous counter; no other field of the request can make verify succeed.
C2_VerifyOnlyPersistedSecret ==
    [][ (Handles("totp-verify", "verify")
           /\ (resp'.valid \/ resp'.sessionToken # NoToken \/ admin_sessions' # admin_sessions))
          => /\ Truthy(getTOTPSecret)
             /\ req'.code \in AcceptedCodes(getTOTPSecret) ]_vars

\* C3: the upload service writes a blob only if the request carries a sessionToken
\* with a valid session row at that moment.
C3_UploadNeedsSession ==
    [][ (now' = now /\ req'.svc = "upload-image" /\ (resp'.success \/ storage' # storage))
          => LiveSession(req'.sessionToken) ]_vars

\* C4: setup persists its secret and issues a session only if the request carries a
\* code that matches the submitted secret for the current or the previous counter;
\* otherwise both stores and the sessions are left as they were.
C4_SetupChecksCode ==
    [][ (Handles("totp-verify", "setup")
           /\ (resp'.success \/ resp'.sessionToken # NoToken
                 \/ <<admin_secrets, site_settings, admin_sessions>>'
                      # <<admin_secrets, site_settings, admin_sessions>>))
          => /\ Truthy(req'.code)
             /\ Truthy(req'.secret)
             /\ req'.code \in AcceptedCodes(req'.secret) ]_vars

\* what check answers in this state
isConfigured == Truthy(getTOTPSecret)

\* C5: the answer of check changes from false to true only as the effect of a setup
\* call that returned success.
C5_OnlySetupConfigures ==
    [][ (~isConfigured /\ isConfigured')
          => (Handles("totp-verify", "setup") /\ resp'.success) ]_vars

\* setup alone writes admin_secrets, and while the data store returns no error it
\* answers success whenever it has written it: the table then has a row exactly when
\* some setup call has returned success
setupHasSucceeded == "totp_secret" \in DOMAIN admin_secrets

\* C6: check answers configured:false in every state reached before any setup call
\* has returned success, and the first check after a setup call that returned
\* success answers configured:true.
C6_CheckFollowsSetup ==
    [][ Handles("totp-verify", "check")
          => /\ ~setupHasSucceeded => ~resp'.configured
             /\ (req.action = "setup" /\ resp.success) => resp'.configured ]_vars

\* the failed attempts of an identity that are at most five minutes old, counted
\* over the log itself
RecentFailures(ip) ==
    LET rows == { r \in DOMAIN auth_attempts :
                    r.ip_address = ip /\ ~r.success /\ now - r.created_at <= RATE_WINDOW_MS }
    IN BagCardinality([r \in rows |-> auth_attempts[r]])

\* the instant of the latest failed attempt of an identity; -1 without one
LastFailure(ip) ==
    LET at == { r.created_at : r \in { x \in DOMAIN auth_attempts :
                                         x.ip_address = ip /\ ~x.success } }
    IN IF at = {} THEN -1 ELSE CHOOSE t \in at : \A u \in at : u <= t

\* C7: a verify call from an identity is rejected with rateLimited:true (HTTP 429)
\* exactly when the log holds five or more failed attempts of that same identity no
\* older than five minutes; the rows of another identity never count, so a verify
\* call of Y is evaluated while X is blocked.
C7_ThresholdPerIdentity ==
    [][ Handles("totp-verify", "verify")
          => /\ resp'.rateLimited <=> RecentFailures(req'.ip) >= RATE_LIMIT
             /\ resp'.rateLimited <=> resp'.status = 429 ]_vars

\* C7 witness: a verify call of Y has been evaluated and logged while X stands at
\* the threshold
C7_Witness ==
    /\ req.action = "verify" /\ req.ip = "Y"
    /\ resp.status = 200 /\ ~resp.rateLimited
    /\ RecentFailures("X") >= RATE_LIMIT
    /\ RecentFailures("Y") >= 1

\* C8: a verify call of an identity at the threshold is answered before anything
\* else is looked at: whatever its code and secret fields are, and whether a secret
\* is configured or not, the answer is 429 with rateLimited:true, without valid and
\* without a session token, and the attempt log and the sessions stay as they were.
C8_BlockedCallHasNoEffect ==
    [][ (Handles("totp-verify", "verify") /\ RecentFailures(req'.ip) >= RATE_LIMIT)
          => /\ resp'.status = 429 /\ resp'.rateLimited
             /\ ~resp'.valid /\ resp'.sessionToken = NoToken
             /\ UNCHANGED <<auth_attempts, admin_sessions, issued>> ]_vars

\* C8 witness: the correct code of the configured secret was refused while blocked
C8_Witness ==
    /\ req.action = "verify"
    /\ resp.rateLimited
    /\ isConfigured
    /\ req.code \in AcceptedCodes(getTOTPSecret)

\* the row a verify call of this identity and outcome adds to the log
AttemptRow(ip, success) ==
    [ip_address |-> ip, action |-> "totp_verify", success |-> success, created_at |-> now]

\* the secret a verify call is evaluated against
SecretUsed(r) == IF Truthy(r.secret) THEN r.secret ELSE getTOTPSecret

\* a verify call whose code is compared: it is not rate-limited, it carries a code,
\* and a secret with a non-empty key is at hand
Evaluated(r) ==
    /\ RecentFailures(r.ip) < RATE_LIMIT
    /\ Truthy(r.code)
    /\ Truthy(SecretUsed(r))
    /\ ~importKeyThrows(SecretUsed(r))

\* C9 as stated: every verify call that is not rate-limited appends exactly one row
\* for the caller's identity whose success field is true exactly when a session was
\* issued.
C9_EveryCallLogged ==
    [][ (Handles("totp-verify", "verify") /\ ~resp'.rateLimited)
          => auth_attempts' = auth_attempts (+) SetToBag({AttemptRow(req'.ip, resp'.sessionToken # NoToken)}) ]_vars

\* C9, amended: every verify call whose code is compared appends exactly one row for
\* the caller's identity, whose success field is the valid field of the answer and is
\* true exactly when a session was issued; a verify call answered before the
\* comparison (rate-limited, no code, no secret, empty key) appends no row.
C9_EvaluatedCallLogged ==
    [][ Handles("totp-verify", "verify")
          => IF Evaluated(req')
             THEN /\ auth_attempts' = auth_attempts (+) SetToBag({AttemptRow(req'.ip, resp'.valid)})
                  /\ resp'.valid <=> resp'.sessionToken # NoToken
                  /\ resp'.valid <=> admin_sessions' # admin_sessions
             ELSE /\ auth_attempts' = auth_attempts
                  /\ ~resp'.valid /\ resp'.sessionToken = NoToken ]_vars

\* C9 witness: a successful verify call has left its row next to failed ones
C9_Witness ==
    /\ req.action = "verify" /\ resp.valid
    /\ resp.sessionToken \in DOMAIN admin_sessions
    /\ BagIn(AttemptRow(req.ip, TRUE), auth_attempts)
    /\ BagIn(AttemptRow(req.ip, FALSE), auth_attempts)

C11_ValidityPredicate ==
    [][ /\ Handles("totp-verify", "validate_session")
             => /\ resp'.status = 200
                /\ resp'.valid <=> (LiveSession(req'.sessionToken) /\ SessionRead \notin faults')
        /\ (now' = now /\ req'.svc = "admin-operations")
             => /\ resp'.status # 500
                /\ resp'.sessionExpired
                     <=> ~(LiveSession(req'.sessionToken) /\ SessionRead \notin faults') ]_vars

\* C11 witness: the read of an unexpired session's row returned an error and the
\* answer was valid:false
C11_Witness ==
    /\ req.action = "validate_session"
    /\ SessionRead \in faults
    /\ LiveSession(req.sessionToken)
    /\ resp.status = 200 /\ ~resp.valid

\* the session rows a step adds
Created == DOMAIN admin_sessions' \ DOMAIN admin_sessions

\* a step in which a call presenting a session token passes the session check
Renews(token) ==
    /\ now' = now
    /\ req'.action = "validate_session" \/ req'.svc = "admin-operations"
    /\ req'.sessionToken = token
    /\ LiveSession(token)

\* C12: a session lives 30 minutes from its creation or its last renewal. A new row
\* gets expires_at = now + 30 min and nothing but a call that presents a valid token
\* changes it, so an unused session is valid at every instant before t0 + 30 min and
\* invalid after it; validate_session on a valid session answers valid:true and sets
\* expires_at to now + 30 min; on an invalid or unknown token it answers valid:false
\* and changes no row.
C12_LifetimeAndRenewal ==
    [][ /\ \A t \in Created : admin_sessions'[t] = now + SESSION_DURATION_MS
        /\ \A t \in DOMAIN admin_sessions \cap DOMAIN admin_sessions' :
              ~Renews(t) => admin_sessions'[t] = admin_sessions[t]
        /\ Handles("totp-verify", "validate_session")
             => IF LiveSession(req'.sessionToken)
                THEN /\ resp'.valid
                     /\ admin_sessions' = [admin_sessions EXCEPT
                                             ![req'.sessionToken] = now + SESSION_DURATION_MS]
                ELSE /\ ~resp'.valid
                     /\ admin_sessions' = admin_sessions ]_vars

\* C12 witness: validate_session has just renewed the older of two sessions, which
\* now expires after the younger one
C12_Witness ==
    /\ req.action = "validate_session" /\ resp.valid
    /\ req.sessionToken = 1
    /\ DOMAIN admin_sessions = {1, 2}
    /\ admin_sessions[1] = now + SESSION_DURATION_MS
    /\ admin_sessions[2] < admin_sessions[1]
    /\ now < admin_sessions[2]

\* the calls that have passed the session check with a token
CallsOn(token) == { id \in DOMAIN inflight : inflight[id].request.sessionToken = token }

\* the instant of the most recent of them
LastUse(token) ==
    LET at == { inflight[id].checkedAt : id \in CallsOn(token) }
    IN CHOOSE t \in at : \A u \in at : u <= t

\* C13: once the calls made on a session have all finished, overlapping or not, its
\* expires_at is the instant of the most recent call that passed the session check
\* plus 30 minutes.
C13_SlidingExpiry ==
    \A t \in DOMAIN admin_sessions :
        (/\ CallsOn(t) # {}
         /\ \A id \in CallsOn(t) : inflight[id].stage = "done")
          => admin_sessions[t] = LastUse(t) + SESSION_DURATION_MS

\* C14: when createSession has run at time t, the table holds the new token with
\* expires_at = t + 30 min, holds no row whose expires_at lay before t, and holds every
\* other row as it was.
C14_CreateSessionEffect ==
    [][ Created # {}
          => /\ Created = {resp'.sessionToken}
             /\ admin_sessions'[resp'.sessionToken] = now + SESSION_DURATION_MS
             /\ \A t \in DOMAIN admin_sessions' : ~(admin_sessions'[t] < now)
             /\ \A t \in DOMAIN admin_sessions :
                   admin_sessions[t] >= now
                     => (t \in DOMAIN admin_sessions' /\ admin_sessions'[t] = admin_sessions[t]) ]_vars

\* C14 witness: the second session has been created and the first, expired by then,
\* is gone
C14_Witness ==
    /\ resp.sessionToken = 2
    /\ DOMAIN admin_sessions = {2}
    /\ admin_sessions[2] = now + SESSION_DURATION_MS

DriftInstants ==
    { StartTime + k * TIME_STEP * 1000 : k \in 0..3 } \cup {StartTime + TIME_STEP * 1000 - 1}

\* the counters a submitted code is computed for, relative to the current one
DriftOffsets == {-2, -1, 0, 1}

\* SpecDrift: codes of nearby counters submitted as the counter advances
NextDrift ==
    \/ Setup(SecretA, NoCode)
    \/ \E k \in DriftOffsets :
          Verify("X", codeOf(SecretA, counterAt(now) + k), Undefined, MaxAttempts + 1)
    \/ \E t \in DriftInstants : Tick(t)

SpecDrift == Init /\ [][NextDrift]_vars

\* the codes of the counters around the current one differ from each other
DistinctCodes ==
    \A j, k \in DriftOffsets :
        j # k => codeOf(SecretA, counterAt(now) + j) # codeOf(SecretA, counterAt(now) + k)

\* C16: a verify call whose code is compared, made while the counter is c with the
\* code of counter c + k, is answered valid exactly when k is 0 or -1: the codes of
\* the current and of the previous counter are accepted, the code of counter c - 2
\* and the code of the future counter c + 1 are rejected.
C16_DriftWindow ==
    [][ (Handles("totp-verify", "verify") /\ Evaluated(req') /\ DistinctCodes)
          => \A k \in DriftOffsets :
                req'.code = hotp(SecretUsed(req'), (now \div 1000) \div 30 + k)
                  => (resp'.valid <=> k \in {-1, 0}) ]_vars

\* C16 witness: one step after the start, the code of the counter of the start has
\* been accepted
C16_Witness ==
    /\ now = StartTime + TIME_STEP * 1000
    /\ req.action = "verify"
    /\ req.code = hotp(SecretA, (StartTime \div 1000) \div 30)
    /\ resp.valid

\* C17: a setup call whose write to admin_secrets returns an error is answered 500
\* and issues no session; a setup call whose write to admin_secrets succeeds and
\* whose write to site_settings returns an error is still answered with success and
\* a session token.
C17_SetupWriteFailures ==
    [][ (Handles("totp-verify", "setup") /\ Truthy(req'.secret))
          => /\ SecretUpsert \in faults'
                  => (resp'.status = 500 /\ resp'.sessionToken = NoToken
                        /\ admin_sessions' = admin_sessions)
             /\ (SecretUpsert \notin faults' /\ SettingUpsert \in faults')
                  => (resp'.status = 200 /\ resp'.success /\ resp'.sessionToken # NoToken) ]_vars

\* C18: the secret that getTOTPSecret returns is the secret of the most recent setup
\* call that returned success: a setup call that returns success makes it the
\* secret of that call, no other step changes it, and verify answers valid only for
\* a code of that secret.
C18_LastWriteWins ==
    [][ /\ (Handles("totp-verify", "setup") /\ resp'.success)
              => getTOTPSecret' = req'.secret
        /\ ~(Handles("totp-verify", "setup") /\ resp'.success)
              => getTOTPSecret' = getTOTPSecret
        /\ (Handles("totp-verify", "verify") /\ resp'.valid)
              => (Truthy(getTOTPSecret) /\ req'.code \in AcceptedCodes(getTOTPSecret)) ]_vars

\* a stored value that counts as a secret: a row exists and its value is not empty
StoredIn(table) ==
    /\ "totp_secret" \in DOMAIN table
    /\ table["totp_secret"] \notin {EmptyString, NULL, Undefined}

\* the secret the lookup is to return: that of admin_secrets if it has one, else that
\* of site_settings if it has one, else none
ExpectedSecret ==
    IF StoredIn(admin_secrets) THEN admin_secrets["totp_secret"]
    ELSE IF StoredIn(site_settings) THEN site_settings["totp_secret"]
    ELSE NULL

\* C19: a verify call that brings a code and no secret of its own, and is not
\* rate-limited, is answered "TOTP not configured" when neither table holds a
\* non-empty secret, and otherwise is answered valid exactly for the codes of the
\* secret of admin_secrets if that table holds one, else of the secret of
\* site_settings.
C19_LookupPrecedence ==
    [][ (Handles("totp-verify", "verify") /\ ~Truthy(req'.secret) /\ Truthy(req'.code)
           /\ ~resp'.rateLimited)
          => IF ExpectedSecret = NULL
             THEN resp'.status = 400 /\ resp'.error = "TOTP not configured"
             ELSE resp'.valid <=>
                     req'.code \in { hotp(ExpectedSecret, (now \div 1000) \div 30),
                                     hotp(ExpectedSecret, (now \div 1000) \div 30 - 1) } ]_vars

\* C19 witness: the two tables hold different secrets and a code of the secret of
\* site_settings has been rejected
C19_Witness ==
    /\ req.action = "verify"
    /\ StoredIn(admin_secrets) /\ StoredIn(site_settings)
    /\ admin_secrets["totp_secret"] # site_settings["totp_secret"]
    /\ req.code = generateTOTP(site_settings["totp_secret"], now)
    /\ resp.status = 200 /\ ~resp.valid

\* C20: whenever verify or setup answers with a sessionToken, the table holds a row
\* with that token that is valid right away; a call whose insert of the session row
\* returns an error is not answered with success.
C20_NoFalseSuccess ==
    [][ (Handles("totp-verify", "verify") \/ Handles("totp-verify", "setup"))
          => /\ resp'.sessionToken # NoToken
                  => (/\ resp'.sessionToken \in DOMAIN admin_sessions'
                      /\ admin_sessions'[resp'.sessionToken] > now)
             /\ SessionInsert \in faults' => ~(resp'.success \/ resp'.valid) ]_vars

\* secrets that decode to no byte: no symbol of the alphabet, and a single symbol
NoSymbolSecret == <<"!", "1", "8">>
ShortSecret == <<"a">>

\* SpecMalformed: secrets that decode to no byte being stored and verified against
NextMalformed ==
    \/ \E secret \in {SecretA, NoSymbolSecret, ShortSecret} : Setup(secret, NoCode)
    \/ \E code \in {WrongCode, generateTOTP(SecretB, now), hotp(NoSymbolSecret, counterAt(now))},
          secret \in {Undefined, SecretB} :
          Verify("X", code, secret, MaxAttempts)
    \/ \E t \in Lifetimes : Tick(t)

SpecMalformed == Init /\ [][NextMalformed]_vars

\* the stored secret is empty or decodes to zero bytes
MalformedStored ==
    \/ ExpectedSecret = NULL
    \/ Cardinality({ i \in 1..Len(ExpectedSecret) :
                       \E j \in 1..32 : alphabet[j] = toUpperCase(ExpectedSecret[i]) }) * 5 < 8

\* C21: while the stored secret is empty or decodes to zero bytes, no verify call,
\* whatever it submits, is answered valid or issues a session.
C21_MalformedFailsClosed ==
    [][ (Handles("totp-verify", "verify") /\ MalformedStored)
          => (~resp'.valid /\ resp'.sessionToken = NoToken
                /\ admin_sessions' = admin_sessions) ]_vars

\* SpecRace: verify calls of one identity, some of them overlapping
NextRace ==
    \/ Setup(SecretA, NoCode)
    \/ Verify("X", WrongCode, Undefined, MaxAttemptsRate)
    \/ BeginVerify("X", WrongCode, MaxAttemptsRate)
    \/ \E id \in DOMAIN inflight : FinishVerify(id, MaxAttemptsRate)
    \/ Tick(StartTime + RATE_WINDOW_MS + 1)

SpecRace == Init /\ [][NextRace]_vars

\* C22: a verify call is evaluated (its row is written) while the window of its
\* identity already holds 5 or more failed rows only if it overlaps another call:
\* it read fewer than 5 failed rows at its rate-limit check, and rows of other calls
\* were written between its check and its evaluation. A call that does not overlap
\* is evaluated only with fewer than 5 failed rows in the window.
C22_RateLimitRace ==
    [][ (now' = now /\ auth_attempts' # auth_attempts)
          => \/ RecentFailures(req'.ip) < RATE_LIMIT
             \/ \E id \in DOMAIN inflight :
                   /\ inflight[id].stage = "checked" /\ inflight'[id].stage = "done"
                   /\ inflight[id].attemptsCount < RATE_LIMIT
                   /\ inflight[id].checkedAt <= now
                   /\ \E r \in BagToSet(auth_attempts) :
                         /\ r.ip_address = req'.ip /\ ~r.success
                         /\ r.created_at >= inflight[id].checkedAt ]_vars

\* C22 witness: two calls that both read 4 failed rows have both been evaluated, and
\* the window holds more than 5 failed rows
C22_Witness ==
    /\ RecentFailures("X") > RATE_LIMIT
    /\ \E i, j \in DOMAIN inflight :
          /\ i # j
          /\ inflight[i].stage = "done" /\ inflight[j].stage = "done"
          /\ inflight[i].attemptsCount = RATE_LIMIT - 1
          /\ inflight[j].attemptsCount = RATE_LIMIT - 1

\* the instants of SpecCreate, in minutes after the start: before and after the end
\* of the lifetime of a session created at the start
CreateInstants == { StartTime + m * 60 * 1000 : m \in {0, 29, 31} }

\* SpecCreate: sessions created by overlapping setup calls next to older sessions
NextCreate ==
    \/ Setup(SecretA, NoCode)
    \/ BeginSetup(SecretA)
    \/ \E id \in DOMAIN inflight : CleanupStep(id)
    \/ \E id \in DOMAIN inflight : InsertStep(id)
    \/ \E t \in CreateInstants : Tick(t)

SpecCreate == Init /\ [][NextCreate]_vars

\* the setup calls that have run createSession to its end
Completed == { i \in DOMAIN inflight : inflight[i].stage = "done" }

\* every session created by a completed call whose
\* lifetime has not passed is in the table with the expires_at the call computed
CompletedSessionsStand ==
    \A i \in Completed :
        inflight[i].expiresAt > now
          => /\ inflight[i].sessionToken \in DOMAIN admin_sessions
             /\ admin_sessions[inflight[i].sessionToken] = inflight[i].expiresAt

\* C23: in every interleaving of the cleanups and inserts of overlapping
\* createSession calls, a step removes only rows whose expires_at has passed, and
\* once the calls have completed their sessions exist and are valid.
C23_ConcurrentCreateHarmless ==
    [][ /\ \A t \in DOMAIN admin_sessions :
              admin_sessions[t] > now
                => (t \in DOMAIN admin_sessions' /\ admin_sessions'[t] = admin_sessions[t])
        /\ CompletedSessionsStand' ]_vars

\* C23 witness: two calls of which the second began while the first was running have
\* both completed, an expired older session is gone, and both new sessions are valid
C23_Witness ==
    /\ Completed = {1, 2}
    /\ LiveSession(inflight[1].sessionToken) /\ LiveSession(inflight[2].sessionToken)
    /\ issued = 3 /\ DOMAIN admin_sessions = {inflight[1].sessionToken, inflight[2].sessionToken}
    /\ inflight[2].running = {1}

\* files as a browser sends them: leading bytes, size, file name and declared type
\* (File.name and File.type, which the handler never reads)
SentFile(bytes, name, type) == [bytes |-> bytes, size |-> Len(bytes), name |-> name, type |-> type]

SniffFiles ==
    { SentFile(<<255, 216, 255, 224>>, "a.png", "image/png"),
      SentFile(<<255, 216, 255, 224>>, "a.jpg", "image/gif"),
      SentFile(<<255, 216>>, "a.jpg", "image/jpeg"),
      SentFile(<<137, 80, 78, 71, 13, 10, 26, 10>>, "a.jpg", "image/jpeg"),
      SentFile(<<82, 73, 70, 70, 1, 2, 3, 4, 87, 69, 66, 80>>, "a.gif", "text/plain"),
      SentFile(<<82, 73, 70, 70, 1, 2, 3, 4, 87, 65, 86, 69>>, "a.webp", "image/webp"),
      SentFile(<<71, 73, 70, 56, 57, 97>>, "a.webp", "image/webp"),
      SentFile(<<60, 63, 112, 104>>, "a.png", "image/png") }

PathJpg == <<"s","e","t","t","i","n","g","s","/","b",".","j","p","g">>

\* SpecSniff: uploads of files whose bytes, names and declared types disagree
NextSniff ==
    \/ Setup(SecretA, NoCode)
    \/ \E file \in SniffFiles, path \in {Path, PathJpg} :
          Upload(file, path, generateTOTP(SecretA, now), NoToken)
    \/ \E t \in Lifetimes : Tick(t)

SpecSniff == Init /\ [][NextSniff]_vars

\* the bytes begin with the signature
BeginsWith(bytes, signature) ==
    Len(bytes) >= Len(signature) /\ SubSeq(bytes, 1, Len(signature)) = signature

\* the content type that the leading bytes stand for; "none" when they match no
\* signature
SniffedType(bytes) ==
    IF BeginsWith(bytes, <<255, 216, 255>>) THEN "image/jpeg"
    ELSE IF BeginsWith(bytes, <<137, 80, 78, 71>>) THEN "image/png"
    ELSE IF BeginsWith(bytes, <<71, 73, 70, 56>>) THEN "image/gif"
    ELSE IF BeginsWith(bytes, <<82, 73, 70, 70>>) /\ Len(bytes) >= 12
            /\ SubSeq(bytes, 9, 12) = <<87, 69, 66, 80>> THEN "image/webp"
    ELSE "none"

\* C24: an upload that stores a file stores it under the content type of its leading
\* bytes, whatever its name, extension and declared type; an upload whose file
\* matches no signature is rejected and stores nothing.
C24_ContentSniffing ==
    [][ (now' = now /\ req'.svc = "upload-image" /\ req'.data.file # NoFile)
          => LET sniffed == SniffedType(req'.data.file.bytes) IN
             IF sniffed = "none"
             THEN ~resp'.success /\ storage' = storage
             ELSE resp'.success
                    => (/\ req'.data.path \in DOMAIN storage'
                        /\ storage'[req'.data.path] = sniffed
                        /\ \A q \in DOMAIN storage' \ {req'.data.path} :
                              q \in DOMAIN storage /\ storage'[q] = storage[q]) ]_vars

\* C24 witness: a file with JPEG bytes, named a.png and declared image/png, has been
\* stored as image/jpeg
C24_Witness ==
    /\ req.svc = "upload-image" /\ resp.success
    /\ req.data.file.name = "a.png" /\ req.data.file.type = "image/png"
    /\ storage[req.data.path] = "image/jpeg"

\* draws of crypto.getRandomValues(new Uint8Array(20)): every byte value in every
\* position, along four progressions
RandomDraws == { [i \in 1..20 |-> (a * i + b) % 256] : a \in {0, 1, 37, 91}, b \in 0..255 }

\* SpecGenerate: secrets being generated
NextGenerate == \E bytes \in RandomDraws : Generate(bytes)

SpecGenerate == Init /\ [][NextGenerate]_vars

\* C25: a generated secret has 20 symbols, all of the Base32 alphabet, and
\* base32Decode of it yields a non-empty sequence of bytes (12 of them).
C25_GeneratedSecretsDecode ==
    req.action = "generate"
      => /\ Len(resp.secret) = 20
         /\ \A i \in 1..20 : \E j \in 1..32 : alphabet[j] = resp.secret[i]
         /\ base32Decode(resp.secret) # <<>>
         /\ Len(base32Decode(resp.secret)) = 12
         /\ \A k \in 1..12 : base32Decode(resp.secret)[k] \in 0..255

\* C25 witness: the secret generated from twenty bytes 255 has been returned
C25_Witness ==
    /\ req.action = "generate"
    /\ resp.secret = [i \in 1..20 |-> "7"]
    /\ base32Decode(resp.secret) = [k \in 1..12 |-> 255]

\* the characters of the secrets of SpecDecode: symbols in both cases, a digit
\* symbol, padding, and characters that are no symbol
DecodeChars == {"a", "B", "7", "=", "1", "-"}
DecodeSecrets == UNION { [1..n -> DecodeChars] : n \in 1..MaxLen }

\* SpecDecode: verify called once with a secret of any shape
NextDecode ==
    \E secret \in DecodeSecrets : req = NoRequest /\ Verify("X", WrongCode, secret, MaxAttempts)

SpecDecode == Init /\ [][NextDecode]_vars

\* the 5-bit value of a character of A-Z, 2-7 after upper-casing, -1 for any other
SymbolValue(c) ==
    CASE c \in {"a", "A"} -> 0
      [] c \in {"b", "B"} -> 1
      [] c = "7" -> 31
      [] OTHER -> -1

\* the values of the symbols of a string, the other characters dropped
RECURSIVE SymbolValues(_)
SymbolValues(s) ==
    IF s = <<>> THEN <<>>
    ELSE IF SymbolValue(Head(s)) = -1 THEN SymbolValues(Tail(s))
    ELSE <<SymbolValue(Head(s))>> \o SymbolValues(Tail(s))

\* the symbols read as one number, most significant first
RECURSIVE AsNumber(_)
AsNumber(v) ==
    IF v = <<>> THEN 0 ELSE AsNumber(SubSeq(v, 1, Len(v) - 1)) * 32 + v[Len(v)]

\* the reference decoder: the first floor(5k/8) bytes of the 5k bits of the k symbols
ReferenceDecode(s) ==
    LET v == SymbolValues(s)
        k == Len(v)
        n == (5 * k) \div 8
    IN [j \in 1..n |-> (AsNumber(v) \div (2 ^ (5 * k - 8 * j))) % 256]

\* the string with the case of its letters swapped
SwapCase(s) ==
    [i \in 1..Len(s) |-> CASE s[i] = "a" -> "A" [] s[i] = "B" -> "b" [] OTHER -> s[i]]

\* the string with characters that are no symbol put before, between and after
RECURSIVE Interspersed(_)
Interspersed(s) ==
    IF s = <<>> THEN <<" ", "=">> ELSE <<"-", Head(s), "8">> \o Interspersed(Tail(s))

\* C26: base32Decode of a secret equals the reference decoder, and does not change
\* when the case of the letters is swapped or characters outside the alphabet are
\* inserted.
C26_LenientDecoding ==
    (req.action = "verify" /\ Truthy(req.secret))
      => /\ base32Decode(req.secret) = ReferenceDecode(req.secret)
         /\ base32Decode(SwapCase(req.secret)) = base32Decode(req.secret)
         /\ base32Decode(Interspersed(req.secret)) = base32Decode(req.secret)

\* C26 witness: a secret of three symbols in mixed case with padding in the middle
\* has been decoded to the one byte 11111000
C26_Witness ==
    /\ req.action = "verify"
    /\ req.secret = <<"7", "=", "B", "a">>
    /\ base32Decode(req.secret) = <<248>>
    /\ resp.status = 200

\* the last call presented the token and was told that its session is not valid
AnsweredInvalid(token) ==
    /\ req.sessionToken = token
    /\ \/ req.action = "validate_session" /\ resp.status = 200 /\ ~resp.valid
       \/ req.svc = "admin-operations" /\ resp.sessionExpired

\* C27: a session for which the check has answered false because its expires_at has
\* passed is not made valid again by any later step.
C27_ExpiredStaysExpired ==
    [][ \A t \in DOMAIN admin_sessions :
           (AnsweredInvalid(t) /\ admin_sessions[t] <= now)
             => ~(t \in DOMAIN admin_sessions' /\ admin_sessions'[t] > now') ]_vars

\* the successful attempts of an identity that are at most five minutes old
RecentSuccesses(ip) ==
    LET rows == { r \in DOMAIN auth_attempts :
                    r.ip_address = ip /\ r.success /\ now - r.created_at <= RATE_WINDOW_MS }
    IN BagCardinality([r \in rows |-> auth_attempts[r]])

\* the failed attempts of an identity in a log that are at most five minutes old at t
FailuresIn(log, ip, t) ==
    LET rows == { r \in DOMAIN log :
                    r.ip_address = ip /\ ~r.success /\ t - r.created_at <= RATE_WINDOW_MS }
    IN BagCardinality([r \in rows |-> log[r]])

\* C28: a successful verify leaves the number of failed attempts in the window as it
\* was; an identity with five failed attempts in the window is rejected although a
\* success lies in the window too and although it submits the correct code; an
\* identity with fewer than five failed attempts is not rejected however many
\* successes the window holds.
C28_SuccessesNeitherCountNorReset ==
    [][ Handles("totp-verify", "verify")
          => /\ resp'.valid
                  => FailuresIn(auth_attempts', req'.ip, now) = FailuresIn(auth_attempts, req'.ip, now)
             /\ (RecentSuccesses(req'.ip) > 0 /\ RecentFailures(req'.ip) >= RATE_LIMIT)
                  => (resp'.rateLimited /\ ~resp'.valid /\ resp'.sessionToken = NoToken)
             /\ (RecentFailures(req'.ip) < RATE_LIMIT
                   /\ RecentFailures(req'.ip) + RecentSuccesses(req'.ip) >= RATE_LIMIT)
                  => ~resp'.rateLimited ]_vars

\* C28 witness: four failures, later a success and one more failure, all within five
\* minutes; the correct code has then been refused
C28_Witness ==
    /\ req.action = "verify" /\ req.ip = "X" /\ resp.rateLimited
    /\ isConfigured
    /\ req.code \in AcceptedCodes(getTOTPSecret)
    /\ now = StartTime + RATE_WINDOW_MS
    /\ CopiesIn([ip_address |-> "X", action |-> "totp_verify", success |-> FALSE,
                  created_at |-> StartTime], auth_attempts) = RATE_LIMIT - 1
    /\ BagIn([ip_address |-> "X", action |-> "totp_verify", success |-> TRUE,
              created_at |-> now], auth_attempts)
    /\ BagIn([ip_address |-> "X", action |-> "totp_verify", success |-> FALSE,
              created_at |-> now], auth_attempts)

\* SpecOpen: verify calls of one identity while the read of the attempt log may
\* return an error
NextOpen ==
    \/ Setup(SecretA, NoCode)
    \/ \E code \in {WrongCode, generateTOTP(SecretA, now)}, F \in {NoFaults, {AttemptRead}} :
          VerifyF("X", code, Undefined, MaxAttemptsRate, F)
    \/ Tick(StartTime + RATE_WINDOW_MS + 1)

SpecOpen == Init /\ [][NextOpen]_vars

\* C29: a verify call whose read of the attempt log returns an error is not
\* rate-limited, whatever the log holds: its code is evaluated against the secret,
\* the attempt is logged, and a valid code is answered valid with a session.
C29_LimiterFailsOpen ==
    [][ (Handles("totp-verify", "verify") /\ AttemptRead \in faults'
           /\ Truthy(req'.code) /\ ExpectedSecret # NULL /\ ~Truthy(req'.secret))
          => /\ ~resp'.rateLimited /\ resp'.status = 200
             /\ resp'.valid <=> req'.code \in AcceptedCodes(ExpectedSecret)
             /\ resp'.valid <=> resp'.sessionToken # NoToken
             /\ auth_attempts' = auth_attempts (+) SetToBag({AttemptRow(req'.ip, resp'.valid)}) ]_vars

\* C29 witness: with five failed attempts in the window, a call whose read of the log
\* failed has had its code evaluated and accepted
C29_Witness ==
    /\ req.action = "verify" /\ AttemptRead \in faults
    /\ RecentFailures("X") >= RATE_LIMIT
    /\ resp.valid /\ resp.sessionToken # NoToken

\* C30: once check answers configured:true it answers configured:true ever after: no
\* step takes the system from a state in which a secret is found to one in which
\* none is.
C30_ConfigurationMonotone ==
    [][ ExpectedSecret # NULL => ExpectedSecret' # NULL ]_vars

====
